---- MODULE Spec2Model ----
(***************************************************************************)
(* A model of the CTS (Strasbourg transport) Home Assistant integration:   *)
(*   - cts_client.py : the HTTP client and its mapping to typed records,   *)
(*   - sensor.py     : the "next departure" sensor and its refresh,        *)
(*   - config_flow.py: the setup wizard and the options wizard.            *)
(*                                                                         *)
(* Python strings are modelled as sequences of one-character strings, so   *)
(* that str.split, string concatenation, str(int) and string ordering are  *)
(* computed as Python computes them.                                       *)
(*                                                                         *)
(* Four specifications share the module (TwoSessionsSpec is Spec with a    *)
(* second session of the options wizard on the same entry):                *)
(*   ClientSpec : one HTTP response, then any of the three client calls;   *)
(*   SensorSpec : periodic refreshes and attribute reads of one sensor;    *)
(*   Spec       : the setup wizard, then options-wizard sessions and the   *)
(*                host's (re)creation of the per-stop device records.      *)
(***************************************************************************)
EXTENDS Integers, Sequences, FiniteSets, TLC

VARIABLES
    \* ---- cts_client.py: one call of the client
    response,           \* what requests.get produced
    call,               \* the client method called last ("none" before any)
    outcome,            \* what that call returned or raised
    \* ---- sensor.py: NextDepartureSensor
    _times,             \* self._times   (None or the visit list)
    _state,             \* self._state   (None or the due-in string)
    _available,         \* self._available
    _attr_icon,         \* self._attr_icon
    _device_name,       \* self._device_name
    _line_ref,          \* self._line_ref
    _stop_code,         \* self._stop_code
    now,                \* dt_util.now() as read by the last operation
    sensor_op,          \* the sensor operation run last
    monitored,          \* what monitor_stop returned to the last refresh
    update_exc,         \* the exception the last async_update let escape
    attributes,         \* the result of extra_state_attributes, read since
                        \* the last refresh
    \* ---- config_flow.py: CTSConfigFlow (setup wizard)
    cf_step,            \* the step the setup wizard is at
    cf_data,            \* CTSConfigFlow.data
    cf_errors,          \* errors["base"] of the form shown last
    cf_raised,          \* what discover_stoppoints raised to the token step
    cf_available_stop_points,
    cf_history,         \* the steps the setup wizard went through
    \* ---- the host: config entry and device registry
    entry,              \* the persisted config entry (data and options)
    devices,            \* the device records of the config entry
    \* ---- config_flow.py: OptionsFlowHandler (options wizard)
    of_step,            \* the form or menu the options wizard shows
    of_data,            \* self.data[CONF_MONITORED_STOPS]
    of_current_stop,    \* self._current_stop
    of_available_stop_points,
    of_stop_point_data_schema,      \* self._stop_point_data_schema
    of_destination_data_schema,     \* self._destination_data_schema
    of_configured_entries_schema,   \* self._configured_entries_schema
    of_errors,          \* errors["base"] of the form shown last
    of_input,           \* the user_input submitted last
    of_result,          \* what the step run last returned or raised
    of_log              \* the message logged by the step run last

client_vars == <<response, call, outcome>>
sensor_vars == <<_times, _state, _available, _attr_icon, _device_name,
                 _line_ref, _stop_code, now,
                 sensor_op, monitored, update_exc, attributes>>
setup_vars  == <<cf_step, cf_data, cf_errors, cf_raised, cf_available_stop_points,
                 cf_history>>
host_vars   == <<entry, devices>>
options_vars == <<of_step, of_data, of_current_stop, of_available_stop_points,
                  of_stop_point_data_schema, of_destination_data_schema,
                  of_configured_entries_schema,
                  of_errors, of_input, of_result, of_log>>
vars == <<client_vars, sensor_vars, setup_vars, host_vars, options_vars>>

----------------------------------------------------------------------------
(* Bounds of the model. *)

\* The longest MonitoredStopVisit list of a response.
MaxVisits == 2
\* The longest AnnotatedStopPointRef list of a response.
MaxPoints == 2
\* The longest InfoMessage list of a response.
MaxMessages == 1

----------------------------------------------------------------------------
(* Python values. *)

\* None / a value, kept in records of one shape.
None == [some |-> FALSE, v |-> <<>>]
Some(x) == [some |-> TRUE, v |-> x]

\* The characters of the model's strings, with their code points.
Code(c) ==
    CASE c = "-" -> 45 [] c = "0" -> 48 [] c = "1" -> 49 [] c = "2" -> 50
      [] c = "3" -> 51 [] c = "4" -> 52 [] c = "5" -> 53 [] c = "6" -> 54
      [] c = "7" -> 55 [] c = "8" -> 56 [] c = "9" -> 57 [] c = "A" -> 65
      [] c = "B" -> 66 [] c = "C" -> 67 [] c = "_" -> 95 [] OTHER -> 120

\* Python's order on str: lexicographic by code point.
RECURSIVE StrLess(_, _)
StrLess(s, t) ==
    IF t = <<>> THEN FALSE
    ELSE IF s = <<>> THEN TRUE
    ELSE IF Code(Head(s)) # Code(Head(t)) THEN Code(Head(s)) < Code(Head(t))
    ELSE StrLess(Tail(s), Tail(t))

StrLeq(s, t) == s = t \/ StrLess(s, t)

\* The position of the first sep in s at or after i, 0 when there is none.
RECURSIVE Find(_, _, _)
Find(s, sep, i) ==
    IF i > Len(s) THEN 0
    ELSE IF s[i] = sep THEN i
    ELSE Find(s, sep, i + 1)

\* str.split(sep, maxsplit): the list of pieces; maxsplit = -1 splits at every
\* sep.
RECURSIVE Split(_, _, _)
Split(s, sep, maxsplit) ==
    LET i == Find(s, sep, 1) IN
    IF maxsplit = 0 \/ i = 0 THEN <<s>>
    ELSE <<SubSeq(s, 1, i - 1)>>
         \o Split(SubSeq(s, i + 1, Len(s)), sep,
                  IF maxsplit < 0 THEN maxsplit ELSE maxsplit - 1)

\* str(n) of a Python int.
Digit(d) ==
    CASE d = 0 -> "0" [] d = 1 -> "1" [] d = 2 -> "2" [] d = 3 -> "3"
      [] d = 4 -> "4" [] d = 5 -> "5" [] d = 6 -> "6" [] d = 7 -> "7"
      [] d = 8 -> "8" [] OTHER -> "9"

RECURSIVE NatStr(_)
NatStr(n) ==
    IF n < 10 THEN <<Digit(n)>> ELSE NatStr(n \div 10) \o <<Digit(n % 10)>>

IntStr(n) == IF n < 0 THEN <<"-">> \o NatStr(-n) ELSE NatStr(n)

\* A dict with string keys: a function on the set of its keys.
EmptyDict == [k \in {} |-> <<>>]
DictSet(d, key, value) ==
    [k \in DOMAIN d \cup {key} |-> IF k = key THEN value ELSE d[k]]

\* str(None)
NoneStr == <<"N", "o", "n", "e">>

\* All sequences over S of length at most n.
SeqsUpTo(S, n) == UNION {[1..k -> S] : k \in 0..n}

\* The sequences of SeqsUpTo(S, n) without a repeated element.
DistinctSeqsUpTo(S, n) ==
    {q \in SeqsUpTo(S, n) : \A i, j \in 1..Len(q) : i # j => q[i] # q[j]}

\* sorted(q, key=...): Python's stable sort, for string keys; keys[i] is the
\* key of q[i].
RECURSIVE InsertByKey(_, _)
InsertByKey(x, q) ==
    IF q = <<>> THEN <<x>>
    ELSE IF StrLess(x.key, Head(q).key) THEN <<x>> \o q
    ELSE <<Head(q)>> \o InsertByKey(x, Tail(q))

RECURSIVE SortPairs(_)
SortPairs(q) ==
    IF q = <<>> THEN <<>>
    ELSE InsertByKey(q[Len(q)], SortPairs(SubSeq(q, 1, Len(q) - 1)))

\* A variant of Sorted that leaves the list in the order given.
Sorted_as_given(q, keys) == q

Sorted(q, keys) ==
    LET p == SortPairs([i \in 1..Len(q) |-> [key |-> keys[i], item |-> q[i]]])
    IN  [i \in 1..Len(q) |-> p[i].item]

----------------------------------------------------------------------------
(* The transit API as the client sees it: what requests.get can produce.   *)

HTTP_OK == 200
HTTP_UNAUTHORIZED == 401
HTTP_INTERNAL_SERVER_ERROR == 500
\* The statuses of the model: the three the client tells apart, and 404, which
\* it does not classify.
Statuses == {HTTP_OK, HTTP_UNAUTHORIZED, HTTP_INTERNAL_SERVER_ERROR, 404}

\* requests.get raises (no response is received) ...
NetworkFailures ==
    {[kind |-> k, status |-> 0, body |-> [json |-> "none"]]
        : k \in {"Timeout", "ConnectionError"}}
\* ... or returns a response with a status and a body.
HttpResponses(Bodies) ==
    {[kind |-> "response", status |-> s, body |-> b] : s \in Statuses, b \in Bodies}

\* A body that is not JSON, or JSON without the delivery the client reads.
BadBodies == {[json |-> "not_json"], [json |-> "no_delivery"]}

\* The responses the wizards and the sensor are served: any body with status
\* 200, an error body with an error status.  (ClientSpec pairs every status
\* with every body.)
ServedResponses(Bodies) ==
    NetworkFailures
    \cup {[kind |-> "response", status |-> HTTP_OK, body |-> b] : b \in Bodies}
    \cup {[kind |-> "response", status |-> s, body |-> b]
            : s \in Statuses \ {HTTP_OK}, b \in BadBodies}

\* --- /stoppoints-discovery
JsonStopPoint(ref, name, logical) ==
    [StopPointRef |-> ref,
     Location |-> [Longitude |-> 7, Latitude |-> 48],
     StopName |-> name,
     Extension |-> [StopCode |-> ref, LogicalStopCode |-> logical,
                    IsFlexhopStop |-> FALSE]]

JsonStopPoints ==
    {JsonStopPoint(<<"1", "A">>, <<"B">>, <<"1">>),
     JsonStopPoint(<<"2", "A">>, <<"A">>, <<"2">>)}

DiscoveryBodies ==
    BadBodies \cup
    {[json |-> "delivery", AnnotatedStopPointRef |-> q]
        : q \in DistinctSeqsUpTo(JsonStopPoints, MaxPoints)}

DiscoveryResponses == NetworkFailures \cup HttpResponses(DiscoveryBodies)

\* --- /stop-monitoring
VehicleModeOf(line) == IF line = <<"B">> THEN "bus" ELSE "tram"
\* The published names sort the lines in the reverse order of their references.
LineNameOf(line) == IF line = <<"B">> THEN <<"1">> ELSE <<"2">> \o line

JsonVisit(line, stop, departure) ==
    [StopCode |-> stop,
     MonitoredVehicleJourney |->
        [LineRef |-> line,
         VehicleMode |-> VehicleModeOf(line),
         PublishedLineName |-> LineNameOf(line),
         DestinationName |-> <<"C">>,
         MonitoredCall |->
            [StopPointName |-> <<"B">>,
             ExpectedDepartureTime |-> departure,
             Extension |-> [IsRealTime |-> TRUE]]]]

MonitoringBodies(Visits) ==
    BadBodies \cup
    {[json |-> "delivery", ValidUntil |-> 300, MonitoringRef |-> <<"1">>,
      MonitoredStopVisit |-> v]
        : v \in {[key |-> "missing", list |-> <<>>], [key |-> "null", list |-> <<>>]}
                \cup {[key |-> "list", list |-> q] : q \in SeqsUpTo(Visits, MaxVisits)}}

\* --- /general-message
JsonMessage(id, zones) ==
    [ItemIdentifier |-> id,
     InfoMessageIdentifier |-> id,
     InfoChannelRef |-> "Perturbation",
     Content |-> [ImpactStartDateTime |-> 0,
                  ImpactEndDateTime |-> 300,
                  ImpactedLineRef |-> <<<<"A">>>>,
                  Priority |-> "Normal",
                  Message |-> [i \in 1..Len(zones) |->
                                  [MessageZoneRef |-> zones[i],
                                   MessageText |-> <<[Value |-> zones[i]]>>]]]]

JsonMessages ==
    {JsonMessage("m1", <<"title", "period", "details">>),
     JsonMessage("m2", <<"details", "title">>)}

GeneralMessageBodies ==
    BadBodies \cup
    {[json |-> "delivery", InfoMessage |-> q] : q \in SeqsUpTo(JsonMessages, MaxMessages)}

GeneralMessageResponses == NetworkFailures \cup HttpResponses(GeneralMessageBodies)

----------------------------------------------------------------------------
(* cts_client.py *)

\* What a client call does: it returns a value or raises; parsed tells whether
\* response.json() was reached.
Return(v) == [raised |-> "none", parsed |-> TRUE, value |-> v]
Raise(e, reached_json) == [raised |-> e, parsed |-> reached_json, value |-> <<>>]
NoCall == [raised |-> "none", parsed |-> FALSE, value |-> <<>>]

\* response.json() and the first subscripts of each method.
JsonError(body) ==
    CASE body.json = "not_json" -> "ValueError"
      [] body.json = "no_delivery" -> "KeyError"
      [] OTHER -> "none"

\* next(msg["MessageText"][0]["Value"] for msg in ... if msg["MessageZoneRef"] == zone)
HasZone(message, zone) ==
    \E i \in 1..Len(message.Content.Message) :
        message.Content.Message[i].MessageZoneRef = zone

ZoneValue(message, zone) ==
    LET m == message.Content.Message
        i == CHOOSE k \in 1..Len(m) :
                /\ m[k].MessageZoneRef = zone
                /\ \A j \in 1..(k - 1) : m[j].MessageZoneRef # zone
    IN  m[i].MessageText[1].Value

InfoMessage(message) ==
    [item_identifier |-> message.ItemIdentifier,
     message_identifier |-> message.InfoMessageIdentifier,
     channel_ref |-> message.InfoChannelRef,
     impact_start |-> message.Content.ImpactStartDateTime,
     impact_end |-> message.Content.ImpactEndDateTime,
     impacted_lines_refs |-> message.Content.ImpactedLineRef,
     priority |-> message.Content.Priority,
     message |-> [title |-> ZoneValue(message, "title"),
                  period |-> ZoneValue(message, "period"),
                  value |-> ZoneValue(message, "details")]]

get_general_messages(resp) ==
    IF resp.kind # "response" THEN Raise(resp.kind, FALSE)
    ELSE IF resp.status # HTTP_OK /\ resp.status = HTTP_UNAUTHORIZED
        THEN Raise("InvalidToken", FALSE)
    ELSE IF resp.status # HTTP_OK /\ resp.status = HTTP_INTERNAL_SERVER_ERROR
        THEN Raise("CannotConnect", FALSE)
    ELSE IF JsonError(resp.body) # "none" THEN Raise(JsonError(resp.body), TRUE)
    ELSE LET result_list == resp.body.InfoMessage IN
         IF \E i \in 1..Len(result_list) :
                \E z \in {"title", "period", "details"} : ~HasZone(result_list[i], z)
         THEN Raise("StopIteration", TRUE)
         ELSE Return([i \in 1..Len(result_list) |-> InfoMessage(result_list[i])])

CtsStopPoint(stop_point) ==
    [ref |-> stop_point.StopPointRef,
     coordinates |-> [longitude |-> stop_point.Location.Longitude,
                      latitude |-> stop_point.Location.Latitude],
     name |-> stop_point.StopName,
     code |-> stop_point.Extension.StopCode,
     logical_code |-> stop_point.Extension.LogicalStopCode,
     is_flexhop |-> stop_point.Extension.IsFlexhopStop]

discover_stoppoints(resp) ==
    IF resp.kind # "response" THEN Raise(resp.kind, FALSE)
    ELSE IF resp.status # HTTP_OK /\ resp.status = HTTP_UNAUTHORIZED
        THEN Raise("InvalidToken", FALSE)
    ELSE IF resp.status # HTTP_OK /\ resp.status = HTTP_INTERNAL_SERVER_ERROR
        THEN Raise("CannotConnect", FALSE)
    ELSE IF JsonError(resp.body) # "none" THEN Raise(JsonError(resp.body), TRUE)
    ELSE LET result_list == resp.body.AnnotatedStopPointRef
             stop_points == [i \in 1..Len(result_list) |-> CtsStopPoint(result_list[i])]
         \* sorted(stop_points, key=lambda x: x.name)
         IN  Return(Sorted(stop_points,
                           [i \in 1..Len(stop_points) |-> stop_points[i].name]))

CtsStopPointVisit(monitoring_ref, valid_until, visit) ==
    LET vehicle == visit.MonitoredVehicleJourney IN
    [monitoring_ref_param |-> monitoring_ref,
     valid_until |-> valid_until,
     stop_code |-> visit.StopCode,
     line_ref |-> vehicle.LineRef,
     vehicle_mode |-> vehicle.VehicleMode,
     line_name |-> vehicle.PublishedLineName,
     destination_name |-> vehicle.DestinationName,
     stop_point_name |-> vehicle.MonitoredCall.StopPointName,
     departure_time |-> vehicle.MonitoredCall.ExpectedDepartureTime,
     real_time |-> vehicle.MonitoredCall.Extension.IsRealTime]

\* A variant of monitor_stop that reads the body before it looks at the status.
monitor_stop_parse_first(resp) ==
    IF resp.kind # "response" THEN Raise(resp.kind, FALSE)
    ELSE IF JsonError(resp.body) # "none" THEN Raise(JsonError(resp.body), TRUE)
    ELSE IF resp.status # HTTP_OK /\ resp.status = HTTP_UNAUTHORIZED
        THEN Raise("InvalidToken", TRUE)
    ELSE IF resp.status # HTTP_OK /\ resp.status = HTTP_INTERNAL_SERVER_ERROR
        THEN Raise("CannotConnect", TRUE)
    ELSE Return(<<>>)

\* A variant of monitor_stop that iterates over
\* response_delivery["MonitoredStopVisit"] as it is, without the "or []".
monitor_stop_no_default(resp) ==
    IF resp.kind # "response" THEN Raise(resp.kind, FALSE)
    ELSE IF resp.status # HTTP_OK /\ resp.status = HTTP_UNAUTHORIZED
        THEN Raise("InvalidToken", FALSE)
    ELSE IF resp.status # HTTP_OK /\ resp.status = HTTP_INTERNAL_SERVER_ERROR
        THEN Raise("CannotConnect", FALSE)
    ELSE IF JsonError(resp.body) # "none" THEN Raise(JsonError(resp.body), TRUE)
    ELSE LET response_delivery == resp.body
             visits == response_delivery.MonitoredStopVisit
         IN  IF visits.key = "missing" THEN Raise("KeyError", TRUE)
             ELSE IF visits.key = "null" THEN Raise("TypeError", TRUE)
             ELSE Return([i \in 1..Len(visits.list) |->
                            CtsStopPointVisit(response_delivery.MonitoringRef,
                                              response_delivery.ValidUntil,
                                              visits.list[i])])

\* The request's monitoringRef and lineRef go to the server; its answer is resp.
monitor_stop(resp) ==
    IF resp.kind # "response" THEN Raise(resp.kind, FALSE)
    ELSE IF resp.status # HTTP_OK /\ resp.status = HTTP_UNAUTHORIZED
        THEN Raise("InvalidToken", FALSE)
    ELSE IF resp.status # HTTP_OK /\ resp.status = HTTP_INTERNAL_SERVER_ERROR
        THEN Raise("CannotConnect", FALSE)
    ELSE IF JsonError(resp.body) # "none" THEN Raise(JsonError(resp.body), TRUE)
    ELSE LET response_delivery == resp.body
             \* response_delivery.get("MonitoredStopVisit") or []
             visits == IF response_delivery.MonitoredStopVisit.key = "list"
                       THEN response_delivery.MonitoredStopVisit.list
                       ELSE <<>>
         IN  Return([i \in 1..Len(visits) |->
                        CtsStopPointVisit(response_delivery.MonitoringRef,
                                          response_delivery.ValidUntil, visits[i])])

\* A variant of due_in_minutes that rounds toward minus infinity.
due_in_minutes_floor(timestamp, clock) ==
    IntStr((timestamp - clock) \div 60)

\* due_in_minutes: str(int(diff.total_seconds() / 60)); int() of a float drops
\* the fraction, rounding toward zero.  diff is a whole number of seconds.
due_in_minutes(timestamp, clock) ==
    LET diff == timestamp - clock IN
    IntStr(IF diff >= 0 THEN diff \div 60 ELSE -((-diff) \div 60))

get_minutes_to_departure_time(visit, clock) ==
    due_in_minutes(visit.departure_time, clock)

----------------------------------------------------------------------------
(* ClientSpec: a response arrives and one of the three client calls maps it. *)

ClientInit ==
    /\ response = [kind |-> "none", status |-> 0, body |-> [json |-> "none"]]
    /\ call = "none"
    /\ outcome = NoCall

\* The pairs (line_ref, stop_code) of the visits the API serves to the wizard.
\* Identifiers may themselves hold the character "_".
WizardPairs ==
    {<<<<"A">>, <<"1">>>>, <<<<"B">>, <<"1">>>>,
     <<<<"A", "_", "B">>, <<"1">>>>, <<<<"A">>, <<"1", "_", "2">>>>}

WizardJsonVisits == {JsonVisit(p[1], p[2], 120) : p \in WizardPairs}

MonitoringResponses ==
    NetworkFailures \cup HttpResponses(MonitoringBodies(WizardJsonVisits))

WizardMonitoringResponses == ServedResponses(MonitoringBodies(WizardJsonVisits))

WizardDiscoveryResponses == ServedResponses(DiscoveryBodies)

CallGeneralMessages ==
    \E resp \in GeneralMessageResponses :
        /\ response' = resp
        /\ call' = "get_general_messages"
        /\ outcome' = get_general_messages(resp)
        /\ UNCHANGED <<sensor_vars, setup_vars, host_vars, options_vars>>

CallDiscoverStoppoints ==
    \E resp \in DiscoveryResponses :
        /\ response' = resp
        /\ call' = "discover_stoppoints"
        /\ outcome' = discover_stoppoints(resp)
        /\ UNCHANGED <<sensor_vars, setup_vars, host_vars, options_vars>>

CallMonitorStop ==
    \E resp \in MonitoringResponses :
        /\ response' = resp
        /\ call' = "monitor_stop"
        /\ outcome' = monitor_stop(resp)
        /\ UNCHANGED <<sensor_vars, setup_vars, host_vars, options_vars>>

ClientNext == CallGeneralMessages \/ CallDiscoverStoppoints \/ CallMonitorStop

----------------------------------------------------------------------------
(* sensor.py: NextDepartureSensor *)

\* The stops a sensor may be created for.
SensorStops ==
    {[line_ref |-> <<"A">>, stop_code |-> <<"1">>],
     [line_ref |-> <<"B">>, stop_code |-> <<"1">>]}

\* The expected departure times the API reports and the clock readings, in
\* seconds: their differences cover departures due, imminent and overdue.
Departures == {120, 180}
ClockReadings == {60, 121, 180, 241}

SensorResponses(line, stop) ==
    ServedResponses(MonitoringBodies({JsonVisit(line, stop, d) : d \in Departures}))

\* The result of a property read: a value or an exception.
NotRead == [raised |-> "none", value |-> None]

\* __init__, for a stop among stops.
SensorInit(stops) ==
    /\ \E s \in stops : _line_ref = s.line_ref /\ _stop_code = s.stop_code
    /\ _times = None
    /\ _state = None
    /\ _available = FALSE
    /\ _attr_icon = "mdi:train-bus"
    /\ _device_name = <<>>
    /\ now = 0
    /\ sensor_op = "init"
    /\ monitored = NoCall
    /\ update_exc = "none"
    /\ attributes = NotRead

unique_id(line_ref, stop_code) == line_ref \o <<"_">> \o stop_code

\* f"({line_ref}) {stop_point_name} - {destination_name}"
DeviceName(visit) ==
    <<"(">> \o visit.line_ref \o <<")", " ">> \o visit.stop_point_name
        \o <<" ", "-", " ">> \o visit.destination_name

\* async_update: the whole refresh, with the response the API gives and the
\* clock due_in_minutes reads.  An exception of monitor_stop escapes before any
\* assignment; an empty list is assigned to _times and then indexed.
async_update(resp, clock) ==
    LET stop_point_visits == monitor_stop(resp) IN
    /\ sensor_op' = "async_update"
    /\ monitored' = stop_point_visits
    /\ now' = clock
    /\ attributes' = NotRead
    /\ UNCHANGED <<_line_ref, _stop_code>>
    /\ IF stop_point_visits.raised # "none"
       THEN /\ update_exc' = stop_point_visits.raised
            /\ UNCHANGED <<_times, _state, _available, _attr_icon, _device_name>>
       ELSE /\ _available' = TRUE
            /\ _times' = Some(stop_point_visits.value)
            /\ IF Len(stop_point_visits.value) = 0
               \* self._times[0]: IndexError, which suppress(TypeError) lets through
               THEN /\ update_exc' = "IndexError"
                    /\ UNCHANGED <<_state, _attr_icon, _device_name>>
               ELSE LET first == stop_point_visits.value[1] IN
                    /\ update_exc' = "none"
                    /\ _state' = Some(get_minutes_to_departure_time(first, clock))
                    /\ _attr_icon' = IF first.vehicle_mode = "bus"
                                     THEN "mdi:bus" ELSE "mdi:tram"
                    /\ _device_name' = DeviceName(first)

\* extra_state_attributes, read at the given clock.
extra_state_attributes(clock) ==
    IF ~_times.some THEN [raised |-> "none", value |-> None]
    ELSE IF Len(_times.v) = 0 THEN [raised |-> "IndexError", value |-> None]
    ELSE LET next_up == IF Len(_times.v) > 1
                        THEN get_minutes_to_departure_time(_times.v[2], clock)
                        ELSE NoneStr
             first == _times.v[1]
         IN  [raised |-> "none",
              value |-> Some([vehicle_type |-> first.vehicle_mode,
                              line |-> first.line_name,
                              destination |-> first.destination_name,
                              due_in |-> get_minutes_to_departure_time(first, clock),
                              due_at |-> first.departure_time,
                              stop_code |-> _stop_code,
                              stop_name |-> first.stop_point_name,
                              real_time |-> first.real_time,
                              next_in |-> next_up])]

\* The scheduler's periodic refresh.
Refresh ==
    \E resp \in SensorResponses(_line_ref, _stop_code), clock \in ClockReadings :
        /\ async_update(resp, clock)
        /\ UNCHANGED <<client_vars, setup_vars, host_vars, options_vars>>

\* The host reads the state attributes.
ReadAttributes ==
    \E clock \in ClockReadings :
        /\ attributes' = extra_state_attributes(clock)
        /\ now' = clock
        /\ sensor_op' = "extra_state_attributes"
        /\ UNCHANGED <<_times, _state, _available, _attr_icon, _device_name,
                       _line_ref, _stop_code, monitored, update_exc>>
        /\ UNCHANGED <<client_vars, setup_vars, host_vars, options_vars>>

SensorNext == Refresh \/ ReadAttributes

----------------------------------------------------------------------------
(* config_flow.py: CTSConfigFlow, the setup wizard *)

Tokens == {"token"}

\* A FlowResult, or the exception a step let escape.
FlowResult(type, step_id) == [type |-> type, step_id |-> step_id, exc |-> "none"]
Escaped(step_id, exc) == [type |-> "exception", step_id |-> step_id, exc |-> exc]

\* A variant of ErrorCode with one code for the two classified failures.
ErrorCode_one_code(raised) ==
    CASE raised = "none" -> "none"
      [] raised = "CannotConnect" -> "cannot_connect"
      [] raised = "InvalidToken" -> "cannot_connect"
      [] OTHER -> "unknown"

\* The error code a wizard step attaches for what a client call raised.
ErrorCode(raised) ==
    CASE raised = "none" -> "none"
      [] raised = "CannotConnect" -> "cannot_connect"
      [] raised = "InvalidToken" -> "invalid_api_token"
      [] OTHER -> "unknown"

\* The history of the setup wizard: the step methods run and what each
\* returned; a step repeated with the same result is recorded once.
Record(history, step_id, type) ==
    LET e == [step_id |-> step_id, type |-> type] IN
    IF history # <<>> /\ history[Len(history)] = e THEN history
    ELSE Append(history, e)

NoEntry == [exists |-> FALSE, data |-> EmptyDict, options |-> EmptyDict]

SetupInit ==
    /\ cf_step = "user"
    /\ cf_data = EmptyDict
    /\ cf_errors = "none"
    /\ cf_raised = "none"
    /\ cf_available_stop_points = <<>>
    /\ cf_history = <<[step_id |-> "user", type |-> "form"]>>
    /\ entry = NoEntry
    /\ devices = {}

\* async_step_user with a token: discover_stoppoints validates it.
async_step_user(user_input, resp) ==
    LET r == discover_stoppoints(resp) IN
    /\ cf_raised' = r.raised
    /\ IF r.raised # "none"
       THEN /\ cf_errors' = ErrorCode(r.raised)
            /\ cf_history' = Record(cf_history, "user", "form")
            /\ UNCHANGED <<cf_step, cf_data, cf_available_stop_points>>
       ELSE /\ cf_available_stop_points' = r.value
            /\ cf_data' = user_input
            /\ cf_errors' = "none"
            \* async_step_menu
            /\ cf_step' = "menu"
            /\ cf_history' = Record(cf_history, "menu", "menu")

CfSubmitToken ==
    /\ cf_step = "user"
    /\ \E token \in Tokens, resp \in WizardDiscoveryResponses :
          async_step_user([api_token |-> token], resp)
    /\ UNCHANGED <<client_vars, sensor_vars, host_vars, options_vars>>

\* self.async_create_entry(title="CTS", data=self.data, ...): the entry is
\* persisted and the wizard ends; its handler, with the stop points it held, is
\* released.
cf_create_entry(step_id) ==
    /\ entry' = [exists |-> TRUE, data |-> cf_data, options |-> EmptyDict]
    /\ cf_step' = "created"
    /\ cf_history' = Record(cf_history, step_id, "create_entry")
    /\ cf_available_stop_points' = <<>>
    /\ UNCHANGED <<cf_data, cf_errors, cf_raised, devices>>

\* The menu option "finish": async_step_finish.
CfFinish ==
    /\ cf_step = "menu"
    /\ cf_create_entry("finish")
    /\ UNCHANGED <<client_vars, sensor_vars, options_vars>>

\* The menu option "add_stop": CTSConfigFlow.async_step_add_stop.
CfAddStop ==
    /\ cf_step = "menu"
    /\ cf_create_entry("add_stop")
    /\ UNCHANGED <<client_vars, sensor_vars, options_vars>>

----------------------------------------------------------------------------
(* The host: the config entry's options and its device records. *)

\* entry.options.get(CONF_MONITORED_STOPS), None read as no stop.
MonitoredStops(options) ==
    IF "monitored_stops" \in DOMAIN options THEN options.monitored_stops ELSE <<>>

DeviceIdentifiers == {d.identifier : d \in devices}

FreshDeviceId ==
    CHOOSE i \in 1..(Cardinality(devices) + 1) :
        /\ i \notin {d.id : d \in devices}
        /\ \A j \in 1..(i - 1) : j \in {d.id : d \in devices}

\* sensor.async_setup_entry: a sensor per configured stop; a sensor that is
\* added registers the device record its device_info describes, under an
\* identifier of the registry's own.  Sensors are added one after the other,
\* and one whose first update fails is not added.
async_setup_entry ==
    /\ entry.exists
    /\ of_step = "closed"
    /\ \E i \in 1..Len(MonitoredStops(entry.options)) :
          LET stop == MonitoredStops(entry.options)[i]
              uid == unique_id(stop.line_ref, stop.stop_code)
          IN  /\ uid \notin DeviceIdentifiers
              /\ devices' = devices \cup {[id |-> FreshDeviceId, identifier |-> uid]}
    /\ UNCHANGED <<entry, client_vars, sensor_vars, setup_vars, options_vars>>

----------------------------------------------------------------------------
(* config_flow.py: OptionsFlowHandler, the options wizard *)

OptionsInit ==
    /\ of_step = "closed"
    /\ of_data = <<>>
    /\ of_current_stop = EmptyDict
    /\ of_available_stop_points = <<>>
    /\ of_stop_point_data_schema = None
    /\ of_destination_data_schema = None
    /\ of_configured_entries_schema = None
    /\ of_errors = "none"
    /\ of_input = EmptyDict
    /\ of_result = FlowResult("none", "none")
    /\ of_log = "none"

\* __init__: the configured stops are copied, keeping line_ref and stop_code.
InitialStops(options) ==
    LET monitored_stops == MonitoredStops(options) IN
    [i \in 1..Len(monitored_stops) |->
        [line_ref |-> monitored_stops[i].line_ref,
         stop_code |-> monitored_stops[i].stop_code]]

\* A dict built by assigning d[key] = label in the order of the items: a key
\* met again keeps its place and takes the new label.
RECURSIVE DictItems(_)
DictItems(items) ==
    IF items = <<>> THEN <<>>
    ELSE LET rest == DictItems(SubSeq(items, 1, Len(items) - 1))
             last == items[Len(items)]
         IN  IF \E i \in 1..Len(rest) : rest[i].value = last.value
             THEN [i \in 1..Len(rest) |->
                     IF rest[i].value = last.value THEN last ELSE rest[i]]
             ELSE Append(rest, last)

\* The select options of the stop form: logical code -> name.
StopPointOptions(stop_points) ==
    DictItems([i \in 1..Len(stop_points) |->
                 [value |-> stop_points[i].logical_code,
                  label |-> stop_points[i].name]])

\* The select options of the destination form:
\* f"{line_ref}_{stop_code}" -> f"({line_ref}) {destination_name}", by line name.
DestinationOptions(destinations) ==
    LET by_line == Sorted(destinations,
                          [i \in 1..Len(destinations) |-> destinations[i].line_name])
    IN
    DictItems([i \in 1..Len(by_line) |->
                 [value |-> by_line[i].line_ref \o <<"_">> \o by_line[i].stop_code,
                  label |-> <<"(">> \o by_line[i].line_ref \o <<")", " ">>
                            \o by_line[i].destination_name]])

\* async_step_add_stop(user_input=None): load the stop points, show the form.
\* stop_points and schema are the handler's fields before the step.
add_stop_form(resp, stop_points, schema) ==
    LET r == discover_stoppoints(resp) IN
    /\ of_step' = "add_stop"
    /\ of_result' = FlowResult("form", "add_stop")
    /\ of_errors' = ErrorCode(r.raised)
    /\ of_log' = IF ErrorCode(r.raised) = "unknown" THEN "Unexpected exception" ELSE "none"
    /\ IF r.raised # "none"
       THEN /\ of_available_stop_points' = stop_points
            /\ of_stop_point_data_schema' = schema
       ELSE /\ of_available_stop_points' = r.value
            /\ of_stop_point_data_schema' = Some(StopPointOptions(r.value))

\* async_get_options_flow and async_step_init: a new handler; without device
\* records the stop form comes at once, else the menu.
OfOpen ==
    /\ entry.exists
    /\ of_step = "closed"
    /\ of_data' = InitialStops(entry.options)
    /\ of_current_stop' = EmptyDict
    /\ of_destination_data_schema' = None
    /\ of_configured_entries_schema' = None
    /\ of_input' = EmptyDict
    /\ IF Cardinality(devices) <= 0
       THEN \E resp \in WizardDiscoveryResponses : add_stop_form(resp, <<>>, None)
       ELSE /\ of_available_stop_points' = <<>>
            /\ of_stop_point_data_schema' = None
            /\ of_step' = "init"
            /\ of_result' = FlowResult("menu", "init")
            /\ of_errors' = "none"
            /\ of_log' = "none"
    /\ UNCHANGED <<client_vars, sensor_vars, setup_vars, host_vars>>

\* The menu option "add_stop".
OfMenuAddStop ==
    /\ of_step = "init"
    /\ \E resp \in WizardDiscoveryResponses :
          add_stop_form(resp, of_available_stop_points, of_stop_point_data_schema)
    /\ UNCHANGED <<of_data, of_current_stop, of_destination_data_schema,
                   of_configured_entries_schema, of_input>>
    /\ UNCHANGED <<client_vars, sensor_vars, setup_vars, host_vars>>

\* The registry identifiers of the device records, in ascending order.
RECURSIVE IdsInOrder(_)
IdsInOrder(ids) ==
    IF ids = {} THEN <<>>
    ELSE LET m == CHOOSE i \in ids : \A j \in ids : i <= j
         IN  <<m>> \o IdsInOrder(ids \ {m})

\* The menu option "remove_stop": async_step_remove_stop(user_input=None) shows
\* the device records as a multi-select (the labels are left out).
OfMenuRemoveStop ==
    /\ of_step = "init"
    /\ of_configured_entries_schema' = Some(IdsInOrder({d.id : d \in devices}))
    /\ of_step' = "remove_stop"
    /\ of_result' = FlowResult("form", "remove_stop")
    /\ UNCHANGED <<of_data, of_current_stop, of_available_stop_points,
                   of_stop_point_data_schema, of_destination_data_schema,
                   of_errors, of_input, of_log>>
    /\ UNCHANGED <<client_vars, sensor_vars, setup_vars, host_vars>>

\* async_step_set_destination(user_input=None): the lines serving the stop.
set_destination_form(current_stop, resp) ==
    LET r == monitor_stop(resp) IN
    IF r.raised # "none"
    THEN /\ of_step' = "set_destination"
         /\ of_result' = FlowResult("form", "set_destination")
         /\ of_errors' = ErrorCode(r.raised)
         /\ of_log' = IF ErrorCode(r.raised) = "unknown"
                      THEN "Unexpected exception" ELSE "none"
         /\ of_current_stop' = current_stop
         /\ UNCHANGED of_destination_data_schema
    ELSE IF Len(r.value) = 0
    \* destinations[0] in the else clause of the try: the IndexError escapes
    THEN /\ of_result' = Escaped("set_destination", "IndexError")
         /\ of_current_stop' = current_stop
         /\ UNCHANGED <<of_step, of_errors, of_log, of_destination_data_schema>>
    ELSE /\ of_step' = "set_destination"
         /\ of_result' = FlowResult("form", "set_destination")
         /\ of_errors' = "none"
         /\ of_log' = "none"
         /\ of_current_stop' = DictSet(current_stop, "stop_name", r.value[1].stop_point_name)
         /\ of_destination_data_schema' = Some(DestinationOptions(r.value))

\* The stop form is submitted: async_step_add_stop(user_input), which goes on
\* to async_step_set_destination(None).  A form shown without a schema (after
\* an error) submits an empty user_input.
OfSubmitStop ==
    /\ of_step = "add_stop"
    /\ IF ~of_stop_point_data_schema.some
       THEN \* user_input[CONF_LOGICAL_STOP_CODE]
            /\ of_input' = EmptyDict
            /\ of_result' = Escaped("add_stop", "KeyError")
            /\ UNCHANGED <<of_step, of_errors, of_log, of_current_stop,
                           of_destination_data_schema>>
       ELSE \E i \in 1..Len(of_stop_point_data_schema.v), resp \in WizardMonitoringResponses :
               LET user_input == [logical_stop_code |-> of_stop_point_data_schema.v[i].value]
               IN  /\ of_input' = user_input
                   /\ set_destination_form(
                         DictSet(of_current_stop, "logical_stop_code",
                                 user_input.logical_stop_code), resp)
    /\ UNCHANGED <<of_data, of_available_stop_points, of_stop_point_data_schema,
                   of_configured_entries_schema>>
    /\ UNCHANGED <<client_vars, sensor_vars, setup_vars, host_vars>>

\* A variant of IsConfigured with all() in the place of any().
IsConfigured_all(stops, current_stop) ==
    /\ stops # <<>>
    /\ \A i \in 1..Len(stops) :
          /\ stops[i].line_ref = current_stop.line_ref
          /\ stops[i].stop_code = current_stop.stop_code

\* A variant of IsConfigured that looks at the first configured stop only.
IsConfigured_first(stops, current_stop) ==
    /\ stops # <<>>
    /\ stops[1].line_ref = current_stop.line_ref
    /\ stops[1].stop_code = current_stop.stop_code

\* any(x[CONF_LINE_REF] == ... and x[CONF_STOP_CODE] == ... for x in stops)
IsConfigured(stops, current_stop) ==
    \E i \in 1..Len(stops) :
        /\ stops[i].line_ref = current_stop.line_ref
        /\ stops[i].stop_code = current_stop.stop_code

\* A variant of of_create_entry that persists and leaves the wizard at its form.
of_create_entry_stays_open(step_id, stops) ==
    /\ entry' = [entry EXCEPT !.options =
                    DictSet(entry.data, "monitored_stops", stops)]
    /\ of_step' = of_step
    /\ of_result' = FlowResult("create_entry", step_id)

\* self.async_create_entry(title="", data=self.data): the options of the entry
\* become the entry's data with the wizard's list, and the wizard ends.
of_create_entry(step_id, stops) ==
    /\ entry' = [entry EXCEPT !.options =
                    DictSet(entry.data, "monitored_stops", stops)]
    /\ of_step' = "closed"
    /\ of_result' = FlowResult("create_entry", step_id)

\* async_step_set_destination(user_input): the selected key is split into the
\* stop, which is appended unless its pair is configured, and all is persisted.
async_step_set_destination(user_input) ==
    LET stop_code_data == IF "stop_code" \in DOMAIN user_input
                          THEN user_input.stop_code ELSE NoneStr
        with_line == DictSet(of_current_stop, "line_ref",
                             Split(stop_code_data, "_", 1)[1])
        pieces == Split(stop_code_data, "_", -1)
        current_stop == DictSet(with_line, "stop_code", pieces[2])
    IN  /\ of_input' = user_input
        /\ IF Len(pieces) < 2
           THEN /\ of_current_stop' = with_line
                /\ of_result' = Escaped("set_destination", "IndexError")
                /\ UNCHANGED <<of_step, of_data, of_log, entry>>
           ELSE /\ of_current_stop' = current_stop
                /\ IF IsConfigured(of_data, current_stop)
                   THEN /\ of_log' = "Stop is already configured"
                        /\ of_data' = of_data
                        /\ of_create_entry("set_destination", of_data)
                   ELSE /\ of_log' = "none"
                        /\ of_data' = Append(of_data, current_stop)
                        /\ of_create_entry("set_destination",
                                           Append(of_data, current_stop))

OfSubmitDestination ==
    /\ of_step = "set_destination"
    /\ IF ~of_destination_data_schema.some
       THEN async_step_set_destination(EmptyDict)
       ELSE \E i \in 1..Len(of_destination_data_schema.v) :
               async_step_set_destination(
                   [stop_code |-> of_destination_data_schema.v[i].value])
    /\ UNCHANGED <<of_available_stop_points, of_stop_point_data_schema,
                   of_destination_data_schema, of_configured_entries_schema,
                   of_errors, devices>>
    /\ UNCHANGED <<client_vars, sensor_vars, setup_vars>>

\* A variant of MatchesIdentifiers that compares the line reference only.
MatchesIdentifiers_line(x, removed_device_identifiers) ==
    x.line_ref = removed_device_identifiers[1]

\* x[CONF_LINE_REF] == removed_device_identifiers[0]
\* and x[CONF_STOP_CODE] == removed_device_identifiers[1]
MatchesIdentifiers(x, removed_device_identifiers) ==
    /\ x.line_ref = removed_device_identifiers[1]
    /\ x.stop_code = removed_device_identifiers[2]

\* list.remove(x): the first element equal to x goes.
ListRemove(list, x) ==
    LET i == CHOOSE k \in 1..Len(list) :
                 list[k] = x /\ \A j \in 1..(k - 1) : list[j] # x
    IN  SubSeq(list, 1, i - 1) \o SubSeq(list, i + 1, Len(list))

\* The loop of async_step_remove_stop over user_input["entries_to_remove"]:
\* entries is the registry as read when the step began, stops the wizard's
\* list and removed the device records deleted so far.  It ends with the list,
\* the deleted records and the exception that stopped it, if any.
RECURSIVE RemoveEntries(_, _, _, _)
RemoveEntries(entries_to_remove, entries, stops, removed) ==
    IF entries_to_remove = <<>>
    THEN [stops |-> stops, removed |-> removed, exc |-> "none"]
    ELSE LET entry_id == Head(entries_to_remove)
             found == {x \in entries : x.id = entry_id}
             failed == [stops |-> stops, removed |-> removed, exc |-> "IndexError"]
         IN  IF found = {} THEN failed
             ELSE LET removed_device_identifiers ==
                          Split((CHOOSE x \in found : TRUE).identifier, "_", 1)
                      matching == {i \in 1..Len(stops) :
                                     Len(removed_device_identifiers) >= 2 /\
                                     MatchesIdentifiers(stops[i], removed_device_identifiers)}
                  IN  IF matching = {} THEN failed
                      ELSE LET stop_to_remove ==
                                   stops[CHOOSE i \in matching : \A j \in matching : i <= j]
                           IN  RemoveEntries(Tail(entries_to_remove), entries,
                                             ListRemove(stops, stop_to_remove),
                                             removed \cup {entry_id})

\* async_step_remove_stop(user_input): each selected device record's stop is
\* removed from the list and the record deleted; then all is persisted.
async_step_remove_stop(user_input) ==
    LET done == RemoveEntries(user_input.entries_to_remove, devices, of_data, {}) IN
    /\ of_input' = user_input
    /\ of_data' = done.stops
    /\ devices' = {d \in devices : d.id \notin done.removed}
    /\ IF done.exc # "none"
       THEN /\ of_result' = Escaped("remove_stop", done.exc)
            /\ UNCHANGED <<of_step, entry>>
       ELSE of_create_entry("remove_stop", done.stops)

\* The removal form is submitted with a selection of the identifiers it offers.
OfSubmitRemoval ==
    /\ of_step = "remove_stop"
    /\ \E ids \in DistinctSeqsUpTo({of_configured_entries_schema.v[i] :
                                       i \in 1..Len(of_configured_entries_schema.v)},
                                  Len(of_configured_entries_schema.v)) :
          async_step_remove_stop([entries_to_remove |-> ids])
    /\ UNCHANGED <<of_current_stop, of_available_stop_points,
                   of_stop_point_data_schema, of_destination_data_schema,
                   of_configured_entries_schema, of_errors, of_log>>
    /\ UNCHANGED <<client_vars, sensor_vars, setup_vars>>

\* async_get_options_flow makes a handler per call: a second session of the
\* options wizard, opened on the same entry while this one shows its removal
\* form, removes one stop by its device record and persists.  That session's
\* list is its own copy of the entry's options; the registry and the entry
\* are the host's, shared by both.
OtherSessionRemoval ==
    /\ of_step = "remove_stop"
    /\ \E id \in {d.id : d \in devices} :
          LET done == RemoveEntries(<<id>>, devices, InitialStops(entry.options), {})
          IN  /\ done.exc = "none"
              /\ devices' = {d \in devices : d.id \notin done.removed}
              /\ entry' = [entry EXCEPT !.options =
                              DictSet(entry.data, "monitored_stops", done.stops)]
    /\ UNCHANGED <<client_vars, sensor_vars, setup_vars, options_vars>>

----------------------------------------------------------------------------
(* The specifications. *)

FirstSensorStop == {[line_ref |-> <<"A">>, stop_code |-> <<"1">>]}

Init == ClientInit /\ SensorInit(FirstSensorStop) /\ SetupInit /\ OptionsInit

\* A sensor for any of the stops.
SensorSpecInit == ClientInit /\ SensorInit(SensorStops) /\ SetupInit /\ OptionsInit

\* The wizards and the host.
Next ==
    \/ CfSubmitToken
    \/ CfFinish
    \/ CfAddStop
    \/ async_setup_entry
    \/ OfOpen
    \/ OfMenuAddStop
    \/ OfMenuRemoveStop
    \/ OfSubmitStop
    \/ OfSubmitDestination
    \/ OfSubmitRemoval

Spec == Init /\ [][Next]_vars

\* The wizards and the host, with a second session of the options wizard.
TwoSessionsNext == Next \/ OtherSessionRemoval

TwoSessionsSpec == Init /\ [][TwoSessionsNext]_vars

\* The client alone.
ClientSpec == Init /\ [][ClientNext]_vars

\* One sensor and its scheduler.
SensorSpec == SensorSpecInit /\ [][SensorNext]_vars

----------------------------------------------------------------------------
(* The claims. *)

\* The last operation of the sensor was a refresh to which monitor_stop
\* returned the visits, without raising.
RefreshReturned ==
    sensor_op = "async_update" /\ monitored.raised = "none"

\* C1: a refresh in which monitor_stop returns an empty visit list completes
\* without raising, whatever the state of the sensor before it.
C1_EmptyRefreshDoesNotRaise ==
    (RefreshReturned /\ Len(monitored.value) = 0) => update_exc = "none"

\* C2: a refresh in which monitor_stop returns an empty visit list leaves the
\* native value and the visit list behind the attributes as they were.
C2_EmptyRefreshKeepsDisplayedState ==
    [][(sensor_op' = "async_update" /\ monitored'.raised = "none"
            /\ Len(monitored'.value) = 0)
        => (_state' = _state /\ _times' = _times)]_vars

\* The whole-second difference departure - now of the first visit, as the
\* last refresh saw it.
FirstDiff == monitored.value[1].departure_time - now

\* C3, as the specification states it: with at least one visit, the due-in
\* value after a refresh is the decimal string of floor(d / 60).
C3_DueInIsFloor ==
    (RefreshReturned /\ Len(monitored.value) >= 1)
        => _state = Some(IntStr(FirstDiff \div 60))

\* C3, amended: with at least one visit, the due-in value after a refresh is
\* the decimal string of d / 60 rounded toward zero: the integer m with
\* 60 m <= d < 60 (m + 1) for d >= 0 and 60 (m - 1) < d <= 60 m for d < 0.
C3_DueInRoundsTowardZero ==
    (RefreshReturned /\ Len(monitored.value) >= 1)
        => /\ update_exc = "none"
           /\ \E m \in -10..10 :
                /\ _state = Some(IntStr(m))
                /\ FirstDiff >= 0 => (60 * m <= FirstDiff /\ FirstDiff < 60 * (m + 1))
                /\ FirstDiff < 0 => (60 * (m - 1) < FirstDiff /\ FirstDiff <= 60 * m)

\* C3's case: a departure overdue by 1 to 59 seconds, shown as 0.
C3_OverdueWitness ==
    /\ RefreshReturned
    /\ Len(monitored.value) >= 1
    /\ FirstDiff \in -59..-1
    /\ _state = Some(<<"0">>)

\* The composite key "{line_ref}_{stop_code}" of a configured stop.
KeyOf(stop) == stop.line_ref \o <<"_">> \o stop.stop_code

\* C4: the destination step, submitted with the key of a stop already in the
\* wizard's list, leaves the list as it was and ends by persisting it.
C4_DuplicateAddLeavesListUnchanged ==
    [][(/\ of_step = "set_destination"
        /\ "stop_code" \in DOMAIN of_input'
        /\ \E i \in 1..Len(of_data) : of_input'.stop_code = KeyOf(of_data[i]))
        => /\ of_result' = FlowResult("create_entry", "set_destination")
           /\ of_data' = of_data
           /\ MonitoredStops(entry'.options) = of_data]_vars

\* C4's case: a list of two stops or more, the key of one of them selected
\* again and the wizard ended by persisting.
C4_DuplicateAddWitness ==
    /\ of_result = FlowResult("create_entry", "set_destination")
    /\ of_log = "Stop is already configured"
    /\ Len(of_data) >= 2
    /\ \E i \in 1..Len(of_data) : of_input.stop_code = KeyOf(of_data[i])

\* The entries of stops other than those whose composite key is identifier.
Without(stops, identifier) ==
    LET Keep(x) == KeyOf(x) # identifier IN SelectSeq(stops, Keep)

\* C5: the removal step, submitted with one registry identifier, removes the
\* one entry whose pair the device record represents; the others stay, in
\* their order, and the result is persisted.
C5_RemovalRemovesExactlyTheStop ==
    [][(/\ of_step = "remove_stop"
        /\ of_result' # of_result
        /\ Len(of_input'.entries_to_remove) = 1)
        => LET device == CHOOSE d \in devices : d.id = of_input'.entries_to_remove[1]
           IN  /\ of_result' = FlowResult("create_entry", "remove_stop")
               /\ of_data' = Without(of_data, device.identifier)
               /\ Len(of_data') = Len(of_data) - 1
               /\ MonitoredStops(entry'.options) = of_data'
               /\ device \notin devices']_vars

\* C5's case: one identifier removed from a list of three, two entries left.
C5_RemovalWitness ==
    /\ of_result = FlowResult("create_entry", "remove_stop")
    /\ Len(of_input.entries_to_remove) = 1
    /\ Len(MonitoredStops(entry.options)) = 2

\* C6: in each of the three calls, HTTP 401 raises InvalidToken and HTTP 500
\* raises CannotConnect, before the body is parsed and with no result.
C6_StatusClassified ==
    (call \in {"get_general_messages", "discover_stoppoints", "monitor_stop"}
        /\ response.kind = "response")
        => /\ response.status = HTTP_UNAUTHORIZED
                => outcome = Raise("InvalidToken", FALSE)
           /\ response.status = HTTP_INTERNAL_SERVER_ERROR
                => outcome = Raise("CannotConnect", FALSE)

\* C6's case: monitor_stop answered 401 with a body that is not JSON.
C6_UnauthorizedWitness ==
    /\ call = "monitor_stop"
    /\ response.kind = "response"
    /\ response.status = HTTP_UNAUTHORIZED
    /\ response.body.json = "not_json"
    /\ outcome.raised = "InvalidToken"

\* C7: in each of the three calls, a timeout or a network error of the request
\* is signalled to the caller as CannotConnect.
C7_NetworkFailureIsCannotConnect ==
    (call # "none" /\ response.kind \in {"Timeout", "ConnectionError"})
        => outcome.raised = "CannotConnect"

\* No two entries of the list have the same (line_ref, stop_code) pair.
NoDuplicatePair(stops) ==
    \A i, j \in 1..Len(stops) :
        (stops[i].line_ref = stops[j].line_ref
            /\ stops[i].stop_code = stops[j].stop_code) => i = j

\* C8: whatever adds and removals the options wizard went through, the
\* persisted list of monitored stops holds no pair twice.
C8_PersistedStopsAreUnique ==
    NoDuplicatePair(MonitoredStops(entry.options))

\* C8's case: after adds and a removal, a key already in a list of two stops
\* is selected and the list persisted; a device record of before is gone.
C8_AddAfterRemovalWitness ==
    /\ of_result = FlowResult("create_entry", "set_destination")
    /\ of_log = "Stop is already configured"
    /\ Len(MonitoredStops(entry.options)) = 2
    /\ \E d \in devices : d.id > Cardinality(devices)

\* C9: in the setup wizard, once "add" is chosen, the configuration is
\* persisted only after a stop form and then a destination form were shown.
C9_AddGoesThroughSelection ==
    \A k \in 1..Len(cf_history) :
        (cf_history[k].type = "create_entry"
            /\ \E a \in 1..k : cf_history[a].step_id = "add_stop")
        => \E i, j \in 1..(k - 1) :
              /\ i < j
              /\ cf_history[i] = [step_id |-> "add_stop", type |-> "form"]
              /\ cf_history[j] = [step_id |-> "set_destination", type |-> "form"]

\* C10: a wizard step that called the transit API ends with a form or the
\* next step, whatever the call returned or raised: the token step leaves the
\* setup wizard at its form or its menu, and after the stop form was
\* submitted (which calls monitor_stop) no exception has escaped.
C10_ApiStepsNeverRaise ==
    /\ cf_step \in {"user", "menu", "created"}
    /\ (of_step \in {"add_stop", "set_destination"}
            /\ "logical_stop_code" \in DOMAIN of_input)
        => of_result.type = "form"

\* C11: the token step validates the token by discover_stoppoints.  When the
\* call raises InvalidToken, CannotConnect or anything else, the code shown is
\* invalid_api_token, cannot_connect or unknown respectively, the token form
\* is shown again, the wizard's data stays without a token and the menu is not
\* reached; the menu is reached, with the token stored, only when the call
\* returned.
C11_TokenErrorsKeepTheForm ==
    [][cf_step = "user"
        => /\ cf_raised' = "InvalidToken" => cf_errors' = "invalid_api_token"
           /\ cf_raised' = "CannotConnect" => cf_errors' = "cannot_connect"
           /\ cf_raised' \notin {"none", "InvalidToken", "CannotConnect"}
                => cf_errors' = "unknown"
           /\ cf_raised' # "none"
                => /\ cf_step' = "user"
                   /\ cf_history'[Len(cf_history')] = [step_id |-> "user", type |-> "form"]
                   /\ cf_data' = cf_data
                   /\ "api_token" \notin DOMAIN cf_data'
                   /\ ~entry'.exists
           /\ cf_step' = "menu"
                => /\ cf_raised' = "none"
                   /\ "api_token" \in DOMAIN cf_data']_vars

\* C11's case: the token was refused with HTTP 401 and the token form is
\* shown with invalid_api_token, no token stored.
C11_InvalidTokenWitness ==
    /\ cf_step = "user"
    /\ cf_raised = "InvalidToken"
    /\ cf_errors = "invalid_api_token"
    /\ cf_data = EmptyDict

\* C12: every entry of the persisted list of monitored stops carries the
\* three fields line_ref, stop_code and stop_name, the entries configured by
\* an earlier session of the options wizard as well as the one just added.
C12_PersistedStopsCarryAllFields ==
    \A i \in 1..Len(MonitoredStops(entry.options)) :
        {"line_ref", "stop_code", "stop_name"}
            \subseteq DOMAIN MonitoredStops(entry.options)[i]

\* C13: discover_stoppoints, when it returns, returns the stop points of the
\* response, each as often as the response holds it and none else, in
\* ascending order of their names, whatever their order in the response.
C13_DiscoveryIsSortedByName ==
    (call = "discover_stoppoints" /\ outcome.raised = "none")
        => LET given == response.body.AnnotatedStopPointRef
               result == outcome.value
           IN  /\ Len(result) = Len(given)
               /\ \A i \in 1..(Len(result) - 1) :
                      StrLeq(result[i].name, result[i + 1].name)
               /\ \A k \in 1..Len(given) :
                      Cardinality({i \in 1..Len(result) : result[i] = CtsStopPoint(given[k])})
                        = Cardinality({i \in 1..Len(given) : given[i] = given[k]})
               /\ \A i \in 1..Len(result) :
                      \E k \in 1..Len(given) : result[i] = CtsStopPoint(given[k])

\* C13's case: a response with two stop points in descending order of name,
\* returned in ascending order.
C13_UnorderedWitness ==
    /\ call = "discover_stoppoints"
    /\ outcome.raised = "none"
    /\ Len(outcome.value) = 2
    /\ StrLess(response.body.AnnotatedStopPointRef[2].StopName,
               response.body.AnnotatedStopPointRef[1].StopName)
    /\ StrLess(outcome.value[1].name, outcome.value[2].name)

\* C14: monitor_stop, answered HTTP 200 with a delivery, raises nothing; it
\* returns the empty list when MonitoredStopVisit is empty, null or missing,
\* and else one visit record per visit of the response, in the response's
\* order.
C14_MonitorStopReturnsVisitsInOrder ==
    (/\ call = "monitor_stop"
     /\ response.kind = "response"
     /\ response.status = HTTP_OK
     /\ response.body.json = "delivery")
        => LET given == response.body.MonitoredStopVisit IN
           /\ outcome.raised = "none"
           /\ (given.key \in {"missing", "null"} \/ given.list = <<>>)
                => outcome.value = <<>>
           /\ given.key = "list"
                => /\ Len(outcome.value) = Len(given.list)
                   /\ \A i \in 1..Len(given.list) :
                        LET journey == given.list[i].MonitoredVehicleJourney IN
                        /\ outcome.value[i].stop_code = given.list[i].StopCode
                        /\ outcome.value[i].line_ref = journey.LineRef
                        /\ outcome.value[i].line_name = journey.PublishedLineName
                        /\ outcome.value[i].destination_name = journey.DestinationName
                        /\ outcome.value[i].departure_time
                              = journey.MonitoredCall.ExpectedDepartureTime
                        /\ outcome.value[i].monitoring_ref_param
                              = response.body.MonitoringRef

\* C14's case: HTTP 200 with "MonitoredStopVisit": null, answered by the
\* empty list.
C14_NullVisitsWitness ==
    /\ call = "monitor_stop"
    /\ response.kind = "response"
    /\ response.status = HTTP_OK
    /\ response.body.json = "delivery"
    /\ response.body.MonitoredStopVisit.key = "null"
    /\ outcome = Return(<<>>)

\* Every selected identifier is that of a device record whose stop is in the
\* wizard's list.
AllResolve(ids) ==
    \A k \in 1..Len(ids) :
        \E d \in devices :
            /\ d.id = ids[k]
            /\ \E i \in 1..Len(of_data) : KeyOf(of_data[i]) = d.identifier

\* C15: an accepted submission of the options wizard (a destination selected,
\* or a removal selection all of whose identifiers resolve) returns
\* async_create_entry, persists the wizard's list as it is after the step and
\* closes the wizard; the entry's options change in no other step of the
\* wizard, and a closed wizard runs no step: what follows is a new session,
\* which starts from the persisted list.
C15_AcceptedSubmissionPersistsAndExits ==
    [][/\ ((of_step = "set_destination" /\ "stop_code" \in DOMAIN of_input')
            \/ (of_step = "remove_stop"
                    /\ "entries_to_remove" \in DOMAIN of_input'
                    /\ AllResolve(of_input'.entries_to_remove)))
          => /\ of_result'.type = "create_entry"
             /\ of_step' = "closed"
             /\ MonitoredStops(entry'.options) = of_data'
       /\ (entry.exists /\ entry' # entry)
          => (of_step # "closed" /\ of_step' = "closed"
                /\ of_result'.type = "create_entry")
       /\ (of_step = "closed" /\ options_vars' # options_vars)
          => /\ of_result'.type \in {"form", "menu"}
             /\ of_data' = InitialStops(entry.options)
             /\ entry' = entry]_vars

\* C15's case: a removal of two stops at once was accepted, persisted and the
\* wizard closed.
C15_RemovalOfTwoWitness ==
    /\ of_step = "closed"
    /\ of_result = FlowResult("create_entry", "remove_stop")
    /\ Len(of_input.entries_to_remove) = 2
    /\ MonitoredStops(entry.options) = of_data

\* The (line_ref, stop_code) pair of the visit the destination form offers
\* under key: the keys of the visits served are pairwise distinct.
OfferedPair(key) ==
    CHOOSE p \in WizardPairs : unique_id(p[1], p[2]) = key

\* C16: selecting the key "{line_ref}_{stop_code}" of an offered visit
\* finalizes a stop with exactly that visit's line_ref and stop_code, also
\* when an identifier holds the character "_"; and the removal step, splitting
\* the identifier a sensor built from a configured stop, finds and removes
\* that stop.
C16_CompositeKeyRoundTrip ==
    [][/\ (of_step = "set_destination" /\ "stop_code" \in DOMAIN of_input')
          => LET p == OfferedPair(of_input'.stop_code) IN
             /\ of_result'.type = "create_entry"
             /\ of_current_stop'.line_ref = p[1]
             /\ of_current_stop'.stop_code = p[2]
             /\ \E i \in 1..Len(of_data') :
                    of_data'[i].line_ref = p[1] /\ of_data'[i].stop_code = p[2]
       /\ (of_step = "remove_stop" /\ "entries_to_remove" \in DOMAIN of_input')
          => \A k \in 1..Len(of_input'.entries_to_remove) :
                LET d == CHOOSE x \in devices : x.id = of_input'.entries_to_remove[k]
                IN  /\ \E i \in 1..Len(of_data) : KeyOf(of_data[i]) = d.identifier
                    /\ \A i \in 1..Len(of_data') : KeyOf(of_data'[i]) # d.identifier]_vars

\* C17: a submission of the removal form, with any number of identifiers,
\* leaves the device registry and the persisted configuration consistent:
\* every device record the step deleted has its stop removed from the
\* wizard's list, and a device record of before the step is deleted exactly
\* when its stop is absent from the persisted list of monitored stops, also
\* when a selected identifier no longer resolves to a configured stop.
C17_RemovalKeepsRegistryAndEntryConsistent ==
    [][(/\ of_step = "remove_stop"
        /\ "entries_to_remove" \in DOMAIN of_input'
        /\ options_vars' # options_vars)
        => \A d \in devices :
              /\ d \notin devices'
                    => \A i \in 1..Len(of_data') : KeyOf(of_data'[i]) # d.identifier
              /\ d \notin devices'
                    <=> \A i \in 1..Len(MonitoredStops(entry'.options)) :
                           KeyOf(MonitoredStops(entry'.options)[i]) # d.identifier]_vars

====
